---- MODULE Spec2Model ----
(***************************************************************************)
(* Weather ETL: the Airflow DAG (src/dags/weather_etl.py) and the          *)
(* standalone collector (src/weather_standalone.py).                       *)
(*                                                                         *)
(* One run of either entry point is modelled: the fetch(es), the           *)
(* transformation, the save and the upload, with the environment (HTTP     *)
(* responses, the filesystem, Google Drive, the clock) chosen              *)
(* nondeterministically from small sets.                                   *)
(*                                                                         *)
(* Conventions:                                                            *)
(*   - Python None is <<>> and any other value v is <<v>>;                 *)
(*   - temperatures are integers in thousandths of a degree, Celsius       *)
(*     results are integers in hundredths of a degree;                     *)
(*   - the clock counts seconds; strftime to second resolution is the      *)
(*     integer itself;                                                     *)
(*   - a call's outcome is [raised, exc, value]: value is meaningful only  *)
(*     when raised is FALSE.                                               *)
(***************************************************************************)
EXTENDS Integers, Sequences, FiniteSets, TLC

\* ------------------------------------------------------------------ bounds

\* The extraction loop of the standalone variant is cut to this many intervals.
MaxIntervals == 3

\* The clock stops ticking at this value (seconds).
MaxClock == 1

\* The clock two concurrent runs read is followed in steps of
\* 1 / TicksPerSecond of a second, up to MaxWall steps.
TicksPerSecond == 2

MaxWall == 5

\* ------------------------------------------------------- program constants

TOTAL_HOURS == 8

INTERVAL_MINUTES == 10

\* 273.15 in thousandths of a degree.
KELVIN_OFFSET == 273150

\* default_args['retries'] of the DAG.
retries == 1

\* The sample data point of the DAG: 300.15 K, 1015 hPa, 70 %, 5.1 m/s, 40 %.
SAMPLE_KELVIN == 300150

SAMPLE_PRESSURE == 1015

SAMPLE_HUMIDITY == 70

SAMPLE_WIND_SPEED == 5100

SAMPLE_CLOUDS == 40

\* The sample envelope of the DAG's save task: 27.0 degrees Celsius, in hundredths.
SAMPLE_CELSIUS == 2700

CITY_NAME == "Karachi"

\* ----------------------------------------------------------------- helpers

None == <<>>

Some(v) == <<v>>

IsNone(o) == o = <<>>

IsSome(o) == o # <<>>

Get(o) == o[1]

Ok(v) == [raised |-> FALSE, exc |-> "", value |-> v]

Raise(e) == [raised |-> TRUE, exc |-> e, value |-> None]

Min(a, b) == IF a < b THEN a ELSE b

\* How many intervals of the extraction loop a specification follows.
VARIABLE loop_cap

\* (TOTAL_HOURS * 60) // INTERVAL_MINUTES, cut at loop_cap.
total_intervals == Min((TOTAL_HOURS * 60) \div INTERVAL_MINUTES, loop_cap)

\* timedelta(minutes=i * INTERVAL_MINUTES) added to start, in seconds.
interval_time(start, k) == start + k * INTERVAL_MINUTES * 60

\* Python's round(x, 2) of a value given in thousandths, as hundredths:
\* to the nearest hundredth, a tie going to the even one.
round2(milli) ==
    LET q == milli \div 10
        r == milli % 10
    IN  IF r < 5 THEN q
        ELSE IF r > 5 THEN q + 1
        ELSE IF q % 2 = 0 THEN q ELSE q + 1

\* ------------------------------------------- the weather API (environment)

\* One forecast entry (standalone: data["list"][0]) or the current-weather
\* object (DAG: data), as the JSON shapes the code tells apart.
\*   main     whether "main" holds temp, pressure and humidity
\*   temp     the value of main.temp: a number, or JSON null
\*   weather  "absent": no "weather" key; "empty": []; "ok": one description
\*   wind     "absent": no "wind" key; "no_speed": {} ; "ok": {"speed": ...}
\*   clouds   "absent": no "clouds" key; "no_all": {} ; "ok": {"all": ...}
\*   visibility  the value of the "visibility" key, None when the key is absent
Entry(main, temp, weather, wind, clouds, visibility) ==
    [main |-> main, temp |-> temp, pressure |-> 1013, humidity |-> 60,
     weather |-> weather, description |-> "clear sky",
     wind |-> wind, wind_speed |-> 4120,
     clouds |-> clouds, clouds_all |-> 75,
     visibility |-> visibility]

FullEntry == Entry(TRUE, Some(273156), "ok", "ok", "ok", Some(10000))

BareEntry == Entry(TRUE, Some(263144), "ok", "absent", "absent", None)

NullTempEntry == Entry(TRUE, None, "ok", "ok", "absent", None)

NoMainEntry == Entry(FALSE, Some(273156), "ok", "ok", "ok", None)

NoWeatherEntry == Entry(TRUE, Some(273156), "absent", "ok", "ok", None)

EmptyWeatherEntry == Entry(TRUE, Some(273156), "empty", "ok", "ok", None)

NoSpeedEntry == Entry(TRUE, Some(273156), "ok", "no_speed", "ok", None)

NoAllEntry == Entry(TRUE, Some(273156), "ok", "ok", "no_all", None)

Entries ==
    {FullEntry, BareEntry, NullTempEntry, NoMainEntry, NoWeatherEntry,
     EmptyWeatherEntry, NoSpeedEntry, NoAllEntry}

\* A response body: not JSON at all, or a JSON object. "list" is the
\* forecast list of the standalone variant's endpoint ("absent", "empty" or
\* holding `entry` first); the DAG's endpoint returns `entry` itself.
Body(json, list, entry) == [json |-> json, list |-> list, entry |-> entry]

Bodies ==
    {Body(FALSE, "absent", FullEntry), Body(TRUE, "absent", FullEntry),
     Body(TRUE, "empty", FullEntry)}
    \cup {Body(TRUE, "present", e) : e \in Entries}

Statuses == {200, 203, 404, 500}

\* What requests.get does: fails at the request level, or returns a response.
Responses ==
    {[kind |-> k, status |-> 0, body |-> Body(FALSE, "absent", FullEntry)] :
        k \in {"timeout", "connection_error"}}
    \cup {[kind |-> "http", status |-> s, body |-> b] : s \in Statuses, b \in Bodies}

\* The exceptions of requests that derive from requests.RequestException.
RequestExceptions == {"Timeout", "ConnectionError", "HTTPError"}

\* requests.get(url, ...): the exception it raises, if any.
requests_get(resp) ==
    IF resp.kind = "timeout" THEN Raise("Timeout")
    ELSE IF resp.kind = "connection_error" THEN Raise("ConnectionError")
    ELSE Ok(Some(resp))

\* response.raise_for_status(): HTTPError on a 4xx or 5xx status only.
raise_for_status(resp) ==
    IF resp.status >= 400 /\ resp.status < 600 THEN Raise("HTTPError") ELSE Ok(None)

\* response.json(): a ValueError (JSONDecodeError) on a body that is not JSON.
response_json(resp) ==
    IF resp.body.json THEN Ok(Some(resp.body)) ELSE Raise("JSONDecodeError")

\* The subscripts weather["main"]["temp"], ["pressure"], ["humidity"],
\* weather["weather"][0]["description"], weather["wind"]["speed"] and
\* weather["clouds"]["all"]: the first exception they raise, in source order.
entry_lookup_error(e) ==
    IF ~e.main THEN "KeyError"
    ELSE IF e.weather = "absent" THEN "KeyError"
    ELSE IF e.weather = "empty" THEN "IndexError"
    ELSE IF e.wind = "no_speed" THEN "KeyError"
    ELSE IF e.clouds = "no_all" THEN "KeyError"
    ELSE ""

\* weather["wind"]["speed"] if "wind" in weather else None
wind_speed_of(e) == IF e.wind = "absent" THEN None ELSE Some(e.wind_speed)

\* weather["clouds"]["all"] if "clouds" in weather else None
clouds_of(e) == IF e.clouds = "absent" THEN None ELSE Some(e.clouds_all)

\* ------------------------------------------------ standalone: the Fetcher

\* The try block of get_weather_data (weather_standalone.py).
get_weather_data_try(timestamp, resp) ==
    LET got == requests_get(resp)
    IN  IF got.raised THEN got
        ELSE IF raise_for_status(resp).raised THEN raise_for_status(resp)
        ELSE IF response_json(resp).raised THEN response_json(resp)
        ELSE IF resp.body.list # "present" THEN Ok(None)
        ELSE LET e == resp.body.entry
             IN  IF entry_lookup_error(e) # "" THEN Raise(entry_lookup_error(e))
                 ELSE Ok(Some([timestamp |-> timestamp,
                               temperature_kelvin |-> e.temp,
                               pressure |-> e.pressure,
                               humidity |-> e.humidity,
                               description |-> e.description,
                               wind_speed |-> wind_speed_of(e),
                               clouds |-> clouds_of(e),
                               visibility |-> e.visibility]))

\* The except clauses of get_weather_data (weather_standalone.py): each
\* returns None.
get_weather_data_except(r) ==
    IF ~r.raised THEN r
    ELSE IF r.exc \in RequestExceptions THEN Ok(None)
    ELSE IF r.exc \in {"KeyError", "IndexError"} THEN Ok(None)
    ELSE Ok(None)

\* get_weather_data(timestamp) of the standalone variant.
get_weather_data(timestamp, resp) ==
    get_weather_data_except(get_weather_data_try(timestamp, resp))

\* ------------------------------------------------------- DAG: the Fetcher

\* Where the DAG finds its API key: the environment variable, the file
\* ~/weather_api_key.txt, a file that cannot be read, or nowhere.
KeySources == {"env", "file", "file_error", "none"}

\* Lines 60-75 of get_weather_data (weather_etl.py): the key, or the early
\* return of None.
resolve_api_key(source) ==
    IF source = "env" THEN Ok(Some("key"))
    ELSE IF source = "file" THEN Ok(Some("key"))
    ELSE Ok(None)

\* The try block of get_weather_data (weather_etl.py).
dag_get_weather_data_try(timestamp, resp) ==
    LET got == requests_get(resp)
    IN  IF got.raised THEN got
        ELSE IF resp.status # 200 THEN Ok(None)
        ELSE IF response_json(resp).raised THEN response_json(resp)
        ELSE LET e == resp.body.entry
             IN  IF entry_lookup_error(e) # "" THEN Raise(entry_lookup_error(e))
                 ELSE Ok(Some([timestamp |-> timestamp,
                               temperature_kelvin |-> e.temp,
                               pressure |-> e.pressure,
                               humidity |-> e.humidity,
                               description |-> e.description,
                               wind_speed |-> wind_speed_of(e),
                               clouds |-> clouds_of(e)]))

\* The except clause of get_weather_data (weather_etl.py): returns None.
dag_get_weather_data_except(r) == IF r.raised THEN Ok(None) ELSE r

\* get_weather_data(timestamp) of the DAG.
dag_get_weather_data(timestamp, source, resp) ==
    IF IsNone(resolve_api_key(source).value) THEN Ok(None)
    ELSE dag_get_weather_data_except(dag_get_weather_data_try(timestamp, resp))

\* The sample data point extract_data and transform_data substitute.
sample_data(timestamp) ==
    [timestamp |-> timestamp,
     temperature_kelvin |-> Some(SAMPLE_KELVIN),
     pressure |-> SAMPLE_PRESSURE,
     humidity |-> SAMPLE_HUMIDITY,
     description |-> "scattered clouds",
     wind_speed |-> Some(SAMPLE_WIND_SPEED),
     clouds |-> Some(SAMPLE_CLOUDS)]

\* ------------------------------------------------------------- Normalizer

\* float - 273.15 raises TypeError when the temperature is None.
celsius_error(raw_data) ==
    \E k \in 1..Len(raw_data) : IsNone(raw_data[k].temperature_kelvin)

\* round(data_point["temperature_kelvin"] - 273.15, 2), in hundredths.
temperature_celsius(data_point) ==
    round2(Get(data_point.temperature_kelvin) - KELVIN_OFFSET)

\* transformed_point of transform_weather_data (weather_standalone.py).
transformed_point(data_point) ==
    [timestamp |-> data_point.timestamp,
     temperature_celsius |-> temperature_celsius(data_point),
     temperature_kelvin |-> data_point.temperature_kelvin,
     pressure |-> data_point.pressure,
     humidity |-> data_point.humidity,
     description |-> data_point.description]

\* strftime("%Y-%m-%d") of a clock value in seconds: the day.
collection_date(now) == now \div 86400

\* Mutant of weather_envelope: data_points counts the intervals asked for, not
\* the measurements kept.
weather_envelope_requested(raw_data, now) ==
    [city |-> CITY_NAME,
     collection_date |-> collection_date(now),
     interval_minutes |-> INTERVAL_MINUTES,
     total_hours |-> TOTAL_HOURS,
     data_points |-> total_intervals,
     measurements |-> [k \in 1..Len(raw_data) |-> transformed_point(raw_data[k])]]

\* weather_data of transform_weather_data (weather_standalone.py).
weather_envelope(raw_data, now) ==
    [city |-> CITY_NAME,
     collection_date |-> collection_date(now),
     interval_minutes |-> INTERVAL_MINUTES,
     total_hours |-> TOTAL_HOURS,
     data_points |-> Len(raw_data),
     measurements |-> [k \in 1..Len(raw_data) |-> transformed_point(raw_data[k])]]

\* transform_weather_data(raw_data) of the standalone variant: None on no
\* data, else the envelope.
transform_weather_data(raw_data, now) ==
    IF raw_data = <<>> THEN Ok(None)
    ELSE IF celsius_error(raw_data) THEN Raise("TypeError")
    ELSE Ok(Some(weather_envelope(raw_data, now)))

\* transformed_point of transform_data (weather_etl.py).
dag_transformed_point(data_point) ==
    [timestamp |-> data_point.timestamp,
     temperature_celsius |-> temperature_celsius(data_point),
     pressure |-> data_point.pressure,
     humidity |-> data_point.humidity,
     description |-> data_point.description,
     wind_speed |-> data_point.wind_speed,
     clouds |-> data_point.clouds]

\* "if not raw_data" of transform_data: one sample point stands in for no data.
raw_or_sample(pulled, now) == IF pulled = <<>> THEN <<sample_data(now)>> ELSE pulled

\* transformed_data of transform_data (weather_etl.py), for the list the
\* loop runs over.
dag_envelope(raw_data, now) ==
    [city |-> CITY_NAME,
     collection_date |-> collection_date(now),
     collection_interval |-> "Every 8 hours",
     data_points |-> Len(raw_data),
     measurements |-> [k \in 1..Len(raw_data) |-> dag_transformed_point(raw_data[k])]]

\* transform_data of the DAG, given what xcom_pull returned (None and [] are
\* both <<>>): the value it pushes, or the exception it re-raises.
transform_data(pulled, now) ==
    LET raw_data == raw_or_sample(pulled, now)
    IN  IF celsius_error(raw_data) THEN Raise("TypeError")
        ELSE Ok(Some(dag_envelope(raw_data, now)))

\* -------------------------------------------------------------- Persister

\* What the filesystem does to one save: "ok" (the directory is created),
\* "dir_exists" (it was there already), "mkdir_fails", "write_fails" (the
\* first open or write fails) and, for the DAG, "csv_fails" (the text file
\* is written and the CSV write fails).
SaveOutcomes == {"ok", "dir_exists", "mkdir_fails", "write_fails"}

DagSaveOutcomes == SaveOutcomes \cup {"csv_fails"}

\* output_dir / f"{CITY_NAME.lower()}_weather_data_{timestamp}.<ext>"
output_path(prefix, now, ext) ==
    [dir |-> "weather_data", prefix |-> prefix, timestamp |-> now, ext |-> ext]

SaveResult(raised, exc, value, files) ==
    [raised |-> raised, exc |-> exc, value |-> value, files |-> files]

\* The files a save wrote hold the envelope it was given.
written_files(result, envelope) ==
    {[path |-> f, envelope |-> envelope] : f \in result.files}

\* Mutant of save_to_file: the except clause prints the error and returns None.
save_to_file_swallowing(transformed_data, now, io) ==
    IF IsNone(transformed_data) THEN SaveResult(FALSE, "", None, {})
    ELSE IF io = "mkdir_fails" THEN SaveResult(TRUE, "OSError", None, {})
    ELSE IF io = "write_fails" THEN SaveResult(FALSE, "", None, {})
    ELSE SaveResult(FALSE, "", Some(output_path("karachi", now, "json")),
                    {output_path("karachi", now, "json")})

\* save_to_file(transformed_data) of the standalone variant: the path it
\* returns and the files it wrote, or the exception that leaves it.
save_to_file(transformed_data, now, io) ==
    IF IsNone(transformed_data) THEN SaveResult(FALSE, "", None, {})
    ELSE IF io = "mkdir_fails" THEN SaveResult(TRUE, "OSError", None, {})
    ELSE IF io = "write_fails" THEN SaveResult(TRUE, "OSError", None, {})
    ELSE SaveResult(FALSE, "", Some(output_path("karachi", now, "json")),
                    {output_path("karachi", now, "json")})

\* The envelope save_to_file of the DAG substitutes when it pulls nothing.
sample_envelope(now) ==
    [city |-> CITY_NAME,
     collection_date |-> collection_date(now),
     collection_interval |-> "Every 8 hours",
     data_points |-> 1,
     measurements |-> <<[timestamp |-> now,
                         temperature_celsius |-> SAMPLE_CELSIUS,
                         pressure |-> SAMPLE_PRESSURE,
                         humidity |-> SAMPLE_HUMIDITY,
                         description |-> "scattered clouds",
                         wind_speed |-> Some(SAMPLE_WIND_SPEED),
                         clouds |-> Some(SAMPLE_CLOUDS)]>>]

\* "if not transformed_data" of the DAG's save_to_file.
envelope_or_sample(pulled, now) ==
    IF IsNone(pulled) THEN sample_envelope(now) ELSE Get(pulled)

\* save_to_file of the DAG: the csv_file_path it pushes and the files it
\* wrote, or the exception it re-raises (nothing is pushed then).
dag_save_to_file(pulled, now, io) ==
    IF io = "mkdir_fails" THEN SaveResult(TRUE, "OSError", None, {})
    ELSE IF io = "write_fails" THEN SaveResult(TRUE, "OSError", None, {})
    ELSE IF io = "csv_fails"
         THEN SaveResult(TRUE, "OSError", None, {output_path("karachi", now, "txt")})
    ELSE SaveResult(FALSE, "", Some(output_path("karachi", now, "csv")),
                    {output_path("karachi", now, "txt"),
                     output_path("karachi", now, "csv")})

\* --------------------------------------------------------------- Uploader

\* Where the service-account file is, and what Google Drive does.
Credentials == {"primary", "alternate", "missing"}

DriveOutcomes == {"ok", "auth_failure", "network_failure", "api_error"}

UploadEnvs == [cred : Credentials, drive : DriveOutcomes]

\* The exception the Drive calls raise, if any ("" when none does).
drive_error(drive) ==
    IF drive = "auth_failure" THEN "RefreshError"
    ELSE IF drive = "network_failure" THEN "TransportError"
    ELSE IF drive = "api_error" THEN "HttpError"
    ELSE ""

UploadResult(raised, exc, value, log) ==
    [raised |-> raised, exc |-> exc, value |-> value, log |-> log]

\* The try block of upload_to_google_drive (weather_standalone.py): only the
\* primary credential path is read.
upload_try(file_path, env) ==
    IF env.cred # "primary" THEN UploadResult(TRUE, "FileNotFoundError", None, "")
    ELSE IF drive_error(env.drive) # ""
         THEN UploadResult(TRUE, drive_error(env.drive), None, "")
    ELSE UploadResult(FALSE, "", Some([id |-> "file_id", name |-> Get(file_path)]),
                      "uploaded")

\* Mutant of upload_except: the exception is not caught.
upload_except_missing(r) == r

\* The except clause of upload_to_google_drive (weather_standalone.py):
\* the error is printed and None returned.
upload_except(r) ==
    IF r.raised THEN UploadResult(FALSE, r.exc, None, "upload_error") ELSE r

\* upload_to_google_drive(file_path) of the standalone variant.
upload_to_google_drive(file_path, env) ==
    IF IsNone(file_path) THEN UploadResult(FALSE, "", None, "no_file_path")
    ELSE upload_except(upload_try(file_path, env))

\* The try block of upload_to_google_drive (weather_etl.py): the alternate
\* credential path is tried when the primary one is absent.
dag_upload_try(csv_file_path, env) ==
    IF env.cred = "missing" THEN UploadResult(TRUE, "FileNotFoundError", None, "")
    ELSE IF drive_error(env.drive) # ""
         THEN UploadResult(TRUE, drive_error(env.drive), None, "")
    ELSE UploadResult(FALSE, "", None, "uploaded")

\* The except clause of upload_to_google_drive (weather_etl.py): the error
\* is printed; the task returns normally.
dag_upload_except(r) ==
    IF r.raised THEN UploadResult(FALSE, r.exc, None, "upload_error") ELSE r

\* "if not csv_file_path" of the DAG's upload: a sample CSV is written,
\* outside the try block.
csv_path_or_sample(pulled, now) ==
    IF IsNone(pulled) THEN output_path("sample", now, "csv") ELSE Get(pulled)

\* upload_to_google_drive of the DAG, given what xcom_pull returned.
dag_upload_to_google_drive(pulled, now, env) ==
    dag_upload_except(dag_upload_try(csv_path_or_sample(pulled, now), env))

\* ------------------------------------------------------------------ state

Stages == <<"extract", "transform", "save", "upload">>

StageSet == {Stages[k] : k \in 1..Len(Stages)}

VARIABLES
    variant,        \* "standalone" (main) or "dag" (one DAG run)
    key_source,     \* where the API key is (read by the DAG only)
    clock,          \* datetime.now(), in seconds
    stage_state,    \* per stage: "none", "running", "success",
                    \*   "up_for_retry", "failed", "upstream_failed", "skipped"
    tries,          \* per stage: how many times it was started
    history,        \* the stages in the order they were started
    start_time,     \* start_time of extract_weather_data
    i,              \* the loop index of extract_weather_data
    fetched,        \* what each get_weather_data call of the run returned
    fetch_call,     \* the last fetch: its response and its outcome
    raw_data,       \* raw_data (main) / XCom raw_weather_data (DAG)
    transformed_data, \* transformed_data (main) / XCom transformed_weather_data
    output_file,    \* output_file (main) / XCom csv_file_path
    file_id,        \* file_id of main
    consumed,       \* per stage: the input it read
    save_call,      \* the last save: what the filesystem did, and its outcome
    upload_call,    \* the last upload: its environment and its outcome
    files,          \* the files written, with the envelope each holds
    logged,         \* the messages printed that tell runs apart
    run_state,      \* "running", "completed", "early_exit" or "failed"
    exit_code,      \* what main returned
    wall,           \* datetime.now() as two concurrent runs read it, in ticks
    runs,           \* per concurrent run: how far its save_to_file has come
    shared_dir      \* the output directory the concurrent runs share

vars ==
    <<variant, key_source, clock, stage_state, tries, history, start_time, i,
      fetched, fetch_call, raw_data, transformed_data, output_file, file_id,
      consumed, save_call, upload_call, files, logged, run_state, exit_code,
      wall, runs, shared_dir, loop_cap>>

\* The state of the concurrent runs; a run followed alone leaves it as it is.
peer_vars == <<wall, runs, shared_dir>>

env_vars == <<variant, key_source, loop_cap, peer_vars>>

extract_vars == <<start_time, i, fetched, fetch_call, raw_data>>

later_vars ==
    <<transformed_data, output_file, file_id, save_call, upload_call, files>>

\* No run followed alone has started.
Fresh ==
    /\ clock = 0
    /\ stage_state = [s \in StageSet |-> "none"]
    /\ tries = [s \in StageSet |-> 0]
    /\ history = <<>>
    /\ start_time = 0
    /\ i = 0
    /\ fetched = <<>>
    /\ fetch_call = None
    /\ raw_data = <<>>
    /\ transformed_data = None
    /\ output_file = None
    /\ file_id = None
    /\ consumed = [s \in StageSet |-> None]
    /\ save_call = None
    /\ upload_call = None
    /\ files = {}
    /\ logged = {}
    /\ run_state = "running"
    /\ exit_code = None

\* No concurrent run is followed.
NoPeers ==
    /\ wall = 0
    /\ runs = <<>>
    /\ shared_dir = [exists |-> FALSE, files |-> {}]

Init ==
    /\ variant \in {"standalone", "dag"}
    /\ key_source \in (IF variant = "dag" THEN KeySources ELSE {"env"})
    /\ loop_cap = MaxIntervals
    /\ Fresh
    /\ NoPeers

\* Time passes while a run is under way.
Tick ==
    /\ run_state = "running"
    /\ clock < MaxClock
    /\ clock' = clock + 1
    /\ UNCHANGED <<variant, key_source, stage_state, tries, history, start_time, i,
                   fetched, fetch_call, raw_data, transformed_data, output_file,
                   file_id, consumed, save_call, upload_call, files, logged,
                   run_state, exit_code, loop_cap, peer_vars>>

\* A stage is started: counted and recorded.
Started(stage) ==
    /\ tries' = [tries EXCEPT ![stage] = @ + 1]
    /\ history' = Append(history, stage)

\* ------------------------------------------------------- standalone: main

\* extract_weather_data, up to its loop: start_time and the empty raw_data.
ExtractBegin ==
    /\ variant = "standalone"
    /\ run_state = "running"
    /\ stage_state["extract"] = "none"
    /\ Started("extract")
    /\ stage_state' = [stage_state EXCEPT !["extract"] = "running"]
    /\ start_time' = clock
    /\ i' = 0
    /\ raw_data' = <<>>
    /\ UNCHANGED <<env_vars, clock, fetched, fetch_call, later_vars, consumed,
                   logged, run_state, exit_code>>

\* Mutant of append_if_data: a failed interval is filled with the point before it.
append_or_backfill(raw, weather_data) ==
    IF IsSome(weather_data) THEN Append(raw, Get(weather_data))
    ELSE IF raw # <<>> THEN Append(raw, raw[Len(raw)])
    ELSE raw

\* "if weather_data: raw_data.append(weather_data)" of extract_weather_data.
append_if_data(raw, weather_data) ==
    IF IsSome(weather_data) THEN Append(raw, Get(weather_data)) ELSE raw

\* Mutant of ExtractStep: an interval whose fetch gave no data is fetched again.
ExtractStepRetrying ==
    /\ variant = "standalone"
    /\ stage_state["extract"] = "running"
    /\ i < total_intervals
    /\ \E resp \in Responses :
        LET current_time == interval_time(start_time, i)
            got == get_weather_data(current_time, resp)
        IN  /\ fetch_call' = Some([timestamp |-> current_time, resp |-> resp,
                                   result |-> got])
            /\ fetched' = Append(fetched, [timestamp |-> current_time,
                                           raised |-> got.raised,
                                           value |-> got.value])
            /\ raw_data' = append_if_data(raw_data, got.value)
            /\ i' = IF IsSome(got.value) THEN i + 1 ELSE i
    /\ UNCHANGED <<env_vars, clock, tries, history, start_time, later_vars,
                   consumed, logged, stage_state, run_state, exit_code>>

\* One iteration of the loop of extract_weather_data.
ExtractStep ==
    /\ variant = "standalone"
    /\ stage_state["extract"] = "running"
    /\ i < total_intervals
    /\ \E resp \in Responses :
        LET current_time == interval_time(start_time, i)
            got == get_weather_data(current_time, resp)
        IN  /\ fetch_call' = Some([timestamp |-> current_time, resp |-> resp,
                                   result |-> got])
            /\ fetched' = Append(fetched, [timestamp |-> current_time,
                                           raised |-> got.raised,
                                           value |-> got.value])
            /\ IF got.raised
               THEN \* the exception leaves extract_weather_data and main catches it
                    /\ raw_data' = raw_data
                    /\ stage_state' = [s \in StageSet |->
                          IF s = "extract" THEN "failed" ELSE "skipped"]
                    /\ run_state' = "failed"
                    /\ exit_code' = Some(1)
               ELSE /\ raw_data' = append_if_data(raw_data, got.value)
                    /\ UNCHANGED <<stage_state, run_state, exit_code>>
    /\ i' = i + 1
    /\ UNCHANGED <<env_vars, clock, tries, history, start_time, later_vars,
                   consumed, logged>>

\* The end of extract_weather_data: raw_data is returned to main.
ExtractReturn ==
    /\ variant = "standalone"
    /\ stage_state["extract"] = "running"
    /\ i = total_intervals
    /\ stage_state' = [stage_state EXCEPT !["extract"] = "success"]
    /\ UNCHANGED <<env_vars, clock, tries, history, extract_vars, later_vars,
                   consumed, logged, run_state, exit_code>>

\* Mutant of main_saves: main saves and uploads whatever the Normalizer returned.
main_saves_unguarded(transformed) == TRUE

\* "if transformed_data:" of main: whether main goes on to save and upload.
main_saves(transformed) == IsSome(transformed)

\* Mutant of main_return: main returns 0 from its except clause too.
main_return_zero(raised) == 0

\* What main returns: 1 from its except clause, 0 at its end.
main_return(raised) == IF raised THEN 1 ELSE 0

\* stage_state once `stage` has raised into main's except clause.
main_aborted(stage) ==
    [s \in StageSet |->
        IF s = stage THEN "failed"
        ELSE IF stage_state[s] = "none" THEN "skipped"
        ELSE stage_state[s]]

\* transform_weather_data(raw_data), and the "if transformed_data:" of main.
Transform ==
    /\ variant = "standalone"
    /\ run_state = "running"
    /\ stage_state["extract"] = "success"
    /\ stage_state["transform"] = "none"
    /\ Started("transform")
    /\ consumed' = [consumed EXCEPT !["transform"] = Some(raw_data)]
    /\ LET r == transform_weather_data(raw_data, clock)
       IN  IF r.raised
           THEN /\ stage_state' = main_aborted("transform")
                /\ run_state' = "failed"
                /\ exit_code' = Some(main_return(TRUE))
                /\ UNCHANGED <<transformed_data, logged>>
           ELSE /\ transformed_data' = r.value
                /\ IF main_saves(r.value)
                   THEN /\ stage_state' = [stage_state EXCEPT !["transform"] = "success"]
                        /\ UNCHANGED <<run_state, exit_code, logged>>
                   ELSE /\ stage_state' = [stage_state EXCEPT
                                              !["transform"] = "success",
                                              !["save"] = "skipped",
                                              !["upload"] = "skipped"]
                        /\ logged' = logged \cup {"no_data_to_save"}
                        /\ run_state' = "early_exit"
                        /\ exit_code' = Some(main_return(FALSE))
    /\ UNCHANGED <<env_vars, clock, extract_vars, output_file, file_id, save_call,
                   upload_call, files>>

\* output_file = save_to_file(transformed_data) of main.
Save ==
    /\ variant = "standalone"
    /\ run_state = "running"
    /\ stage_state["transform"] = "success"
    /\ stage_state["save"] = "none"
    /\ Started("save")
    /\ consumed' = [consumed EXCEPT !["save"] = Some(transformed_data)]
    /\ \E io \in SaveOutcomes :
        LET r == save_to_file(transformed_data, clock, io)
        IN  /\ save_call' = Some([io |-> io, result |-> r])
            /\ files' = files \cup written_files(r, transformed_data)
            /\ IF r.raised
               THEN /\ stage_state' = main_aborted("save")
                    /\ logged' = logged \cup {"save_error"}
                    /\ run_state' = "failed"
                    /\ exit_code' = Some(main_return(TRUE))
                    /\ UNCHANGED output_file
               ELSE /\ output_file' = r.value
                    /\ stage_state' = [stage_state EXCEPT !["save"] = "success"]
                    /\ UNCHANGED <<run_state, exit_code, logged>>
    /\ UNCHANGED <<env_vars, clock, extract_vars, transformed_data, file_id,
                   upload_call>>

\* "if file_id:" of main: which of its two messages is printed.
upload_message(id) == IF IsSome(id) THEN "uploaded_with_id" ELSE "failed_to_upload"

\* file_id = upload_to_google_drive(output_file) of main, and main's end.
Upload ==
    /\ variant = "standalone"
    /\ run_state = "running"
    /\ stage_state["save"] = "success"
    /\ stage_state["upload"] = "none"
    /\ Started("upload")
    /\ consumed' = [consumed EXCEPT !["upload"] = Some(output_file)]
    /\ \E env \in UploadEnvs :
        LET r == upload_to_google_drive(output_file, env)
        IN  /\ upload_call' = Some([env |-> env, result |-> r])
            /\ IF r.raised
               THEN /\ stage_state' = main_aborted("upload")
                    /\ run_state' = "failed"
                    /\ exit_code' = Some(main_return(TRUE))
                    /\ UNCHANGED <<file_id, logged>>
               ELSE /\ file_id' = r.value
                    /\ logged' = logged \cup {r.log, upload_message(r.value)}
                    /\ stage_state' = [stage_state EXCEPT !["upload"] = "success"]
                    /\ run_state' = "completed"
                    /\ exit_code' = Some(main_return(FALSE))
    /\ UNCHANGED <<env_vars, clock, extract_vars, transformed_data, output_file,
                   save_call, files>>

\* ------------------------------------------------------- the DAG's tasks

\* The place of a stage in extract >> transform >> save >> upload.
StageIndex(stage) == CHOOSE k \in 1..Len(Stages) : Stages[k] = stage

\* Mutant of upstream_done: the dependencies between the tasks are not declared.
upstream_done_undeclared(task) == TRUE

\* extract_task >> transform_task >> save_task >> upload_task: a task waits
\* for the success of the task before it.
upstream_done(task) ==
    IF StageIndex(task) = 1 THEN TRUE
    ELSE stage_state[Stages[StageIndex(task) - 1]] = "success"

\* Whether the scheduler may start the task: never run, or up for its retry.
runnable(task) ==
    /\ variant = "dag"
    /\ run_state = "running"
    /\ stage_state[task] \in {"none", "up_for_retry"}
    /\ upstream_done(task)

\* Mutant of may_retry: one retry more than configured.
may_retry_once_more(n_tries) == n_tries <= retries + 1

\* default_args['retries']: a task that raised is tried again while it has
\* been tried no more than `retries` times (the retry_delay before the new
\* try is not modelled: the clock may or may not have ticked).
may_retry(n_tries) == n_tries <= retries

\* stage_state after `task` raised on its n-th try: up for retry, or failed
\* with every later task upstream_failed.
task_raised(task, n_tries) ==
    IF may_retry(n_tries)
    THEN [stage_state EXCEPT ![task] = "up_for_retry"]
    ELSE [s \in StageSet |->
            IF s = task THEN "failed"
            ELSE IF StageIndex(s) > StageIndex(task) THEN "upstream_failed"
            ELSE stage_state[s]]

\* The state of the run after `task` raised on its n-th try.
run_after_raise(n_tries) == IF may_retry(n_tries) THEN "running" ELSE "failed"

\* weather_data_points of extract_data: the fetched point, or the sample.
weather_data_points(weather_data, now) ==
    IF IsSome(weather_data) THEN <<Get(weather_data)>> ELSE <<sample_data(now)>>

\* The task extract: extract_data.
DagExtract ==
    /\ runnable("extract")
    /\ Started("extract")
    /\ \E resp \in Responses :
        LET got == dag_get_weather_data(clock, key_source, resp)
        IN  /\ fetch_call' = Some([timestamp |-> clock, resp |-> resp, result |-> got])
            /\ fetched' = Append(fetched, [timestamp |-> clock,
                                           raised |-> got.raised,
                                           value |-> got.value])
            /\ IF got.raised
               THEN /\ stage_state' = task_raised("extract", tries["extract"] + 1)
                    /\ run_state' = run_after_raise(tries["extract"] + 1)
                    /\ UNCHANGED <<raw_data, logged>>
               ELSE /\ raw_data' = weather_data_points(got.value, clock)
                    /\ logged' = IF IsSome(got.value) THEN logged
                                 ELSE logged \cup {"sample_data_point"}
                    /\ stage_state' = [stage_state EXCEPT !["extract"] = "success"]
                    /\ UNCHANGED run_state
    /\ UNCHANGED <<env_vars, clock, start_time, i, later_vars, consumed, exit_code>>

\* The task transform: transform_data.
DagTransform ==
    /\ runnable("transform")
    /\ Started("transform")
    /\ consumed' = [consumed EXCEPT !["transform"] = Some(raw_data)]
    /\ LET r == transform_data(raw_data, clock)
       IN  IF r.raised
           THEN /\ stage_state' = task_raised("transform", tries["transform"] + 1)
                /\ run_state' = run_after_raise(tries["transform"] + 1)
                /\ UNCHANGED transformed_data
           ELSE /\ transformed_data' = r.value
                /\ stage_state' = [stage_state EXCEPT !["transform"] = "success"]
                /\ UNCHANGED run_state
    /\ UNCHANGED <<env_vars, clock, extract_vars, output_file, file_id, save_call,
                   upload_call, files, logged, exit_code>>

\* The task save: save_to_file.
DagSave ==
    /\ runnable("save")
    /\ Started("save")
    /\ consumed' = [consumed EXCEPT !["save"] = Some(transformed_data)]
    /\ \E io \in DagSaveOutcomes :
        LET r == dag_save_to_file(transformed_data, clock, io)
        IN  /\ save_call' = Some([io |-> io, result |-> r])
            /\ files' = files \cup
                  written_files(r, Some(envelope_or_sample(transformed_data, clock)))
            /\ IF r.raised
               THEN /\ stage_state' = task_raised("save", tries["save"] + 1)
                    /\ logged' = logged \cup {"save_error"}
                    /\ run_state' = run_after_raise(tries["save"] + 1)
                    /\ UNCHANGED output_file
               ELSE /\ output_file' = r.value
                    /\ stage_state' = [stage_state EXCEPT !["save"] = "success"]
                    /\ UNCHANGED <<run_state, logged>>
    /\ UNCHANGED <<env_vars, clock, extract_vars, transformed_data, file_id,
                   upload_call, exit_code>>

\* The task upload: upload_to_google_drive; the run ends with it.
DagUpload ==
    /\ runnable("upload")
    /\ Started("upload")
    /\ consumed' = [consumed EXCEPT !["upload"] = Some(output_file)]
    /\ \E env \in UploadEnvs :
        LET r == dag_upload_to_google_drive(output_file, clock, env)
        IN  /\ upload_call' = Some([env |-> env, result |-> r])
            /\ IF r.raised
               THEN /\ stage_state' = task_raised("upload", tries["upload"] + 1)
                    /\ run_state' = run_after_raise(tries["upload"] + 1)
                    /\ UNCHANGED logged
               ELSE /\ logged' = logged \cup {r.log}
                    /\ stage_state' = [stage_state EXCEPT !["upload"] = "success"]
                    /\ run_state' = "completed"
    /\ UNCHANGED <<env_vars, clock, extract_vars, transformed_data, output_file,
                   file_id, save_call, files, exit_code>>

Next ==
    \/ Tick
    \/ ExtractBegin
    \/ ExtractStep
    \/ ExtractReturn
    \/ Transform
    \/ Save
    \/ Upload
    \/ DagExtract
    \/ DagTransform
    \/ DagSave
    \/ DagUpload

Spec == Init /\ [][Next]_vars

\* ------------------------------------ the extraction loop at its full length

\* In the full-length loop a fetch may come back without data in the first
\* and in the last FailWindow intervals.
FailWindow == 2

\* What the API answers in the full-length loop: a measurement, or nothing.
LoopResponses ==
    {[kind |-> "timeout", status |-> 0, body |-> Body(FALSE, "absent", FullEntry)],
     [kind |-> "http", status |-> 200, body |-> Body(TRUE, "present", FullEntry)]}

\* The interval indexes whose fetch may come back without data.
may_fail(index) ==
    IF index < FailWindow THEN TRUE ELSE index >= total_intervals - FailWindow

\* A standalone run whose loop is not cut.
FullLoopInit ==
    /\ variant = "standalone"
    /\ key_source = "env"
    /\ loop_cap = (TOTAL_HOURS * 60) \div INTERVAL_MINUTES
    /\ Fresh
    /\ NoPeers

\* One iteration of the loop, the API answering from LoopResponses, with
\* nothing only where may_fail allows it.
FullLoopStep ==
    /\ ExtractStep
    /\ Get(fetch_call').resp \in LoopResponses
    /\ IsNone(Get(fetch_call').result.value) => may_fail(i)

\* extract_weather_data from its first line to its return.
extract_weather_data == ExtractBegin \/ FullLoopStep \/ ExtractReturn

FullLoopNext ==
    \/ Tick
    \/ ExtractBegin
    \/ FullLoopStep
    \/ ExtractReturn

\* The function runs on once called: nothing in it waits.
FullLoopSpec ==
    FullLoopInit /\ [][FullLoopNext]_vars /\ WF_vars(extract_weather_data)

\* ------------------------------------- two runs sharing an output directory

RunIds == {1, 2}

\* Mutant of strftime_seconds: the format stops at the minute ("%Y%m%d_%H%M").
strftime_minutes(now) == now \div (TicksPerSecond * 60)

\* datetime.now().strftime("%Y%m%d_%H%M%S"): the sub-second part of now is
\* dropped, the whole seconds are kept.
strftime_seconds(now) == now \div TicksPerSecond

\* A run that has reached its save_to_file and has done nothing in it yet.
called_run(v) ==
    [variant |-> v, pc |-> "called", io |-> "", persisted_at |-> None,
     files |-> {}]

\* save_to_file of the run's variant, handed an envelope.
persist(v, now, io) ==
    IF v = "standalone" THEN save_to_file(Some(sample_envelope(now)), now, io)
    ELSE dag_save_to_file(Some(sample_envelope(now)), now, io)

\* The writes that can fail after the directory is there.
write_outcomes(v) ==
    IF v = "standalone" THEN {"written", "write_fails"}
    ELSE {"written", "write_fails", "csv_fails"}

\* Two runs, of either variant each, are at their save_to_file; the output
\* directory is there already or is not.
TwoRunsInit ==
    /\ variant = "standalone"
    /\ key_source = "env"
    /\ loop_cap = MaxIntervals
    /\ Fresh
    /\ wall = 0
    /\ runs \in [RunIds -> {called_run(v) : v \in {"standalone", "dag"}}]
    /\ shared_dir \in {[exists |-> e, files |-> {}] : e \in BOOLEAN}

\* Time passes for both runs.
WallTick ==
    /\ wall < MaxWall
    /\ wall' = wall + 1
    /\ UNCHANGED <<variant, key_source, loop_cap, clock, stage_state, tries,
                   history, extract_vars, later_vars, consumed, logged,
                   run_state, exit_code, runs, shared_dir>>

\* output_dir.mkdir(exist_ok=True) of run r: it makes the directory, finds it
\* made, or fails for a reason of the filesystem's.
PersistMkdir(r) ==
    /\ runs[r].pc = "called"
    /\ \E fails \in BOOLEAN :
        LET io == IF fails THEN "mkdir_fails"
                  ELSE IF shared_dir.exists THEN "dir_exists" ELSE "ok"
            result == persist(runs[r].variant, strftime_seconds(wall), io)
        IN  IF fails
            THEN /\ runs' = [runs EXCEPT ![r].pc = IF result.raised THEN "raised"
                                                    ELSE "returned",
                                         ![r].io = io]
                 /\ UNCHANGED shared_dir
            ELSE /\ runs' = [runs EXCEPT ![r].pc = "mkdir_done", ![r].io = io]
                 /\ shared_dir' = [shared_dir EXCEPT !.exists = TRUE]
    /\ UNCHANGED <<variant, key_source, loop_cap, clock, stage_state, tries,
                   history, extract_vars, later_vars, consumed, logged,
                   run_state, exit_code, wall>>

\* The rest of save_to_file of run r: the timestamp is taken, the file name is
\* built from it and the files are written.
PersistWrite(r) ==
    /\ runs[r].pc = "mkdir_done"
    /\ \E w \in write_outcomes(runs[r].variant) :
        LET io == IF w = "written" THEN runs[r].io ELSE w
            result == persist(runs[r].variant, strftime_seconds(wall), io)
        IN  /\ runs' = [runs EXCEPT ![r].pc = IF result.raised THEN "raised"
                                               ELSE "returned",
                                    ![r].io = io,
                                    ![r].persisted_at = Some(wall),
                                    ![r].files = result.files]
            /\ shared_dir' = [shared_dir EXCEPT !.files = @ \cup result.files]
    /\ UNCHANGED <<variant, key_source, loop_cap, clock, stage_state, tries,
                   history, extract_vars, later_vars, consumed, logged,
                   run_state, exit_code, wall>>

TwoRunsNext ==
    \/ WallTick
    \/ \E r \in RunIds : PersistMkdir(r)
    \/ \E r \in RunIds : PersistWrite(r)

TwoRunsSpec == TwoRunsInit /\ [][TwoRunsNext]_vars

\* ================================================================= claims

\* The stage before `stage` in the pipeline.
Previous(stage) == Stages[StageIndex(stage) - 1]

LaterStages == StageSet \ {"extract"}

\* Stages start in pipeline order, each only after the one before it succeeded.
StagesInOrder ==
    /\ \A k \in 1..(Len(history) - 1) :
          StageIndex(history[k]) <= StageIndex(history[k + 1])
    /\ \A s \in LaterStages : tries[s] > 0 => stage_state[Previous(s)] = "success"

\* Each stage read what the stage before it produced, never a stand-in.
ConsumesPrevious ==
    /\ IsSome(consumed["transform"]) =>
          /\ Get(consumed["transform"]) = raw_data
          /\ variant = "dag" => raw_data # <<>>
    /\ IsSome(consumed["save"]) =>
          /\ Get(consumed["save"]) = transformed_data
          /\ IsSome(transformed_data)
    /\ IsSome(consumed["upload"]) =>
          /\ Get(consumed["upload"]) = output_file
          /\ IsSome(output_file)

\* C1 as stated: the stages run in the order Fetcher, Normalizer, Persister,
\* Uploader, none starts before the one before it has finished, each runs at
\* most once per run, and each consumes only the output of the stage before it.
C1_Original ==
    /\ StagesInOrder
    /\ ConsumesPrevious
    /\ \A s \in StageSet : tries[s] <= 1

\* C1 as amended: the order and the hand-over hold in both entry points; the
\* standalone main runs each stage at most once, the DAG runs a task again
\* only after it raised, and at most retries + 1 times in all.
C1_StageOrder ==
    /\ StagesInOrder
    /\ ConsumesPrevious
    /\ variant = "standalone" => \A s \in StageSet : tries[s] <= 1
    /\ variant = "dag" => \A s \in StageSet : tries[s] <= retries + 1
    /\ \A s \in StageSet :
          tries[s] > 1 => ("save_error" \in logged \/ stage_state[s] = "failed"
                           \/ stage_state[s] = "up_for_retry")

\* A DAG run that completed after its save task was run twice.
C1_Witness ==
    /\ variant = "dag"
    /\ run_state = "completed"
    /\ tries["save"] = 2
    /\ history = <<"extract", "transform", "save", "save", "upload">>

\* C2: given no raw measurement, the DAG's extract_data and transform_data
\* produce an envelope of exactly one sample measurement and do not fail; the
\* standalone main produces no envelope, writes no file and calls neither
\* save_to_file nor upload_to_google_drive.
C2_EmptyInput ==
    /\ (/\ variant = "dag"
        /\ stage_state["extract"] = "success"
        /\ IsNone(Get(fetch_call).result.value))
       => /\ raw_data = <<sample_data(Get(fetch_call).timestamp)>>
          /\ tries["transform"] > 0 =>
                /\ stage_state["transform"] = "success"
                /\ Get(transformed_data).data_points = 1
                /\ Len(Get(transformed_data).measurements) = 1
                /\ Get(transformed_data).measurements[1] =
                      dag_transformed_point(raw_data[1])
    /\ \A now \in 0..MaxClock :
          /\ ~transform_data(<<>>, now).raised
          /\ Get(transform_data(<<>>, now).value).measurements =
                <<dag_transformed_point(sample_data(now))>>
    /\ (/\ variant = "standalone"
        /\ stage_state["extract"] = "success"
        /\ raw_data = <<>>)
       => /\ transformed_data = None
          /\ tries["save"] = 0
          /\ tries["upload"] = 0
          /\ save_call = None
          /\ upload_call = None
          /\ files = {}
          /\ run_state \in {"running", "early_exit"}

\* A standalone run all of whose fetches failed, ended after the Normalizer.
C2_Witness ==
    /\ variant = "standalone"
    /\ Len(fetched) = total_intervals
    /\ raw_data = <<>>
    /\ tries["transform"] = 1
    /\ run_state = "early_exit"

\* data_points equals the number of measurements.
CountMatches(envelope) == envelope.data_points = Len(envelope.measurements)

\* C3: in every envelope produced (the sample envelopes included) data_points
\* equals the length of measurements, the stages after the Normalizer read that
\* same envelope, and once created it never changes.
C3_EnvelopeCount ==
    /\ [](/\ IsSome(transformed_data) => CountMatches(Get(transformed_data))
          /\ \A f \in files :
                /\ CountMatches(Get(f.envelope))
                /\ f.envelope = transformed_data
          /\ IsSome(consumed["save"]) => consumed["save"] = Some(transformed_data)
          /\ \A now \in 0..MaxClock :
                /\ CountMatches(sample_envelope(now))
                /\ CountMatches(Get(transform_data(<<>>, now).value)))
    /\ [][IsSome(transformed_data) => transformed_data' = transformed_data]_vars

\* A standalone envelope of fewer measurements than intervals, read by the
\* Persister and written to a file.
C3_Witness ==
    /\ variant = "standalone"
    /\ IsSome(transformed_data)
    /\ Get(transformed_data).data_points = 2
    /\ Get(transformed_data).data_points < Len(fetched)
    /\ \E f \in files : f.envelope = transformed_data

\* Every field of the raw measurement other than the Kelvin temperature.
PassedFields(r) == DOMAIN r \ {"temperature_kelvin"}

\* C4 as stated: each normalized record holds round(kelvin - 273.15, 2) as
\* temperature_celsius and every other field of the raw measurement (timestamp,
\* pressure, humidity, description, wind_speed, clouds, visibility) unchanged;
\* the measurements keep the length and the order of the input.
C4_Original ==
    IsSome(transformed_data) =>
        LET m == Get(transformed_data).measurements
        IN  /\ Len(m) = Len(raw_data)
            /\ \A k \in 1..Len(raw_data) :
                  /\ m[k].temperature_celsius =
                        round2(Get(raw_data[k].temperature_kelvin) - KELVIN_OFFSET)
                  /\ \A f \in PassedFields(raw_data[k]) :
                        /\ f \in DOMAIN m[k]
                        /\ m[k][f] = raw_data[k][f]

\* Whether the body holds the keys the variant requires (the forecast list,
\* temperature, pressure, humidity and description).
required_keys_present(v, body) ==
    /\ body.json
    /\ v = "standalone" => body.list = "present"
    /\ body.entry.main
    /\ body.entry.weather = "ok"

\* C5 as stated: a fetch call never raises; on any non-200 status, any
\* request-level failure or any JSON-shape mismatch it returns None; it returns
\* a measurement only on a 200 response holding all the required keys.
C5_Original ==
    IsSome(fetch_call) =>
        LET resp == Get(fetch_call).resp
            result == Get(fetch_call).result
            good == /\ resp.kind = "http"
                    /\ resp.status = 200
                    /\ required_keys_present(variant, resp.body)
        IN  /\ ~result.raised
            /\ ~good => IsNone(result.value)
            /\ IsSome(result.value) => good

\* The values of the calls that returned data, in call order.
RECURSIVE Kept(_)
Kept(calls) ==
    IF calls = <<>> THEN <<>>
    ELSE (IF IsSome(Head(calls).value) THEN <<Get(Head(calls).value)>> ELSE <<>>)
         \o Kept(Tail(calls))

\* C6: extract_weather_data returns exactly the successful fetch results in
\* interval order, the failures dropped, so no more than the intervals asked
\* for; when every fetch fails it returns the empty list and raises nothing.
C6_ExtractKeepsSuccesses ==
    variant = "standalone" =>
        /\ raw_data = Kept(fetched)
        /\ Len(fetched) = i
        /\ Len(raw_data) <= Len(fetched)
        /\ Len(fetched) <= total_intervals
        /\ \A k \in 1..Len(fetched) :
              /\ ~fetched[k].raised
              /\ fetched[k].timestamp = interval_time(start_time, k - 1)
        /\ stage_state["extract"] # "failed"
        /\ stage_state["extract"] = "success" => Len(fetched) = total_intervals
        /\ (\A k \in 1..Len(fetched) : IsNone(fetched[k].value)) => raw_data = <<>>

\* An extraction that returned fewer points than intervals: a failure, then a
\* success, then a failure.
C6_Witness ==
    /\ variant = "standalone"
    /\ stage_state["extract"] = "success"
    /\ Len(raw_data) = 1
    /\ IsNone(fetched[1].value)
    /\ IsSome(fetched[2].value)
    /\ IsNone(fetched[3].value)

\* Whether the upload meets a failure: no credential file where the variant
\* looks for it, or a failing Drive call.
upload_env_fails(v, env) ==
    \/ env.drive # "ok"
    \/ env.cred = "missing"
    \/ (v = "standalone" /\ env.cred = "alternate")

\* C7: an upload that fails for any reason is reported (the error is printed
\* and, in the standalone variant, None returned) and raises nothing past the
\* Uploader; the run still completes: the upload task succeeds, main goes on to
\* its end and returns 0.
C7_UploadFailureSwallowed ==
    (IsSome(upload_call) /\ upload_env_fails(variant, Get(upload_call).env)) =>
        /\ ~Get(upload_call).result.raised
        /\ IsNone(Get(upload_call).result.value)
        /\ Get(upload_call).result.log = "upload_error"
        /\ "upload_error" \in logged
        /\ stage_state["upload"] = "success"
        /\ run_state = "completed"
        /\ variant = "standalone" =>
              /\ file_id = None
              /\ "failed_to_upload" \in logged
              /\ exit_code = Some(0)

\* A standalone run whose upload found no credential file.
C7_Witness ==
    /\ variant = "standalone"
    /\ IsSome(upload_call)
    /\ Get(upload_call).env.cred = "missing"
    /\ Get(upload_call).result.exc = "FileNotFoundError"
    /\ run_state = "completed"

\* Whether the filesystem failed the save.
save_io_fails(io) == io \in {"mkdir_fails", "write_fails", "csv_fails"}

\* C8 as stated: a persistence failure is fatal for the run: in that run the
\* Uploader is never invoked and no artifact path is handed on.
C8_Original ==
    "save_error" \in logged =>
        /\ tries["upload"] = 0
        /\ output_file = None
        /\ run_state # "completed"

\* C8 as amended: a failed save raises out of the Persister and hands on no
\* path; the Uploader runs only after a save that succeeded. In the standalone
\* main the failure is fatal; in the DAG the save task is tried once more, and
\* the run fails, the Uploader never invoked, when that try fails too.
C8_PersistFailure ==
    /\ (IsSome(save_call) /\ save_io_fails(Get(save_call).io)) =>
          /\ Get(save_call).result.raised
          /\ IsNone(Get(save_call).result.value)
          /\ "save_error" \in logged
          /\ output_file = None
          /\ tries["upload"] = 0
          /\ stage_state["save"] \in {"failed", "up_for_retry"}
          /\ variant = "standalone" =>
                /\ run_state = "failed"
                /\ exit_code = Some(1)
                /\ stage_state["upload"] = "skipped"
          /\ (variant = "dag" /\ tries["save"] > retries) =>
                /\ run_state = "failed"
                /\ stage_state["save"] = "failed"
                /\ stage_state["upload"] = "upstream_failed"
    /\ tries["upload"] > 0 =>
          /\ IsSome(save_call)
          /\ ~save_io_fails(Get(save_call).io)
          /\ IsSome(output_file)
          /\ output_file = Get(save_call).result.value
    /\ (variant = "standalone" /\ "save_error" \in logged) =>
          /\ tries["upload"] = 0
          /\ run_state = "failed"

\* A DAG run that failed at its save task, tried twice, the upload never run.
C8_Witness ==
    /\ variant = "dag"
    /\ tries["save"] = 2
    /\ save_io_fails(Get(save_call).io)
    /\ run_state = "failed"
    /\ tries["upload"] = 0

\* C9: main returns 0 on any completed run, a failed upload and the early
\* end on empty input included, 1 only when an exception reached its except
\* clause, and never anything else.
C9_ExitCode ==
    /\ variant = "dag" => exit_code = None
    /\ variant = "standalone" =>
          /\ exit_code \in {None, Some(0), Some(1)}
          /\ run_state = "running" <=> exit_code = None
          /\ run_state \in {"completed", "early_exit"} => exit_code = Some(0)
          /\ run_state = "failed" => exit_code = Some(1)
          /\ exit_code = Some(1) <=> \E s \in StageSet : stage_state[s] = "failed"
          /\ (IsSome(upload_call) /\ upload_env_fails(variant, Get(upload_call).env))
                => exit_code = Some(0)

\* A standalone run that returned 0 although its upload failed.
C9_Witness ==
    /\ variant = "standalone"
    /\ IsSome(upload_call)
    /\ Get(upload_call).env.drive = "api_error"
    /\ file_id = None
    /\ exit_code = Some(0)

\* Some stage of the run can take a step.
StageStep ==
    \/ ExtractBegin
    \/ ExtractStep
    \/ ExtractReturn
    \/ Transform
    \/ Save
    \/ Upload
    \/ DagExtract
    \/ DagTransform
    \/ DagSave
    \/ DagUpload

\* C10 as stated: a run ends only by the early termination after the
\* Normalizer (standalone only) or by completing through the Uploader, and no
\* stage is retried.
C10_Original ==
    /\ run_state \in {"running", "early_exit", "completed"}
    /\ run_state = "early_exit" => variant = "standalone"
    /\ \A s \in StageSet : tries[s] <= 1

\* C10 as amended: a run is one forward pass ending at one of three exits: the
\* early termination after the Normalizer on empty input (standalone only),
\* the completion through the Uploader, or the abort at the one stage that
\* raised, nothing after it started. Nothing runs after the end; the standalone
\* main never runs a stage twice, the DAG only a task that raised, once.
C10_ExitPoints ==
    /\ run_state \in {"running", "early_exit", "completed", "failed"}
    /\ run_state = "running" => ENABLED StageStep
    /\ run_state # "running" => ~ENABLED Next
    /\ run_state = "early_exit" =>
          /\ variant = "standalone"
          /\ raw_data = <<>>
          /\ history = <<"extract", "transform">>
          /\ stage_state["save"] = "skipped"
          /\ stage_state["upload"] = "skipped"
    /\ run_state = "completed" =>
          /\ \A s \in StageSet : stage_state[s] = "success"
          /\ history[Len(history)] = "upload"
    /\ run_state = "failed" =>
          \E s \in StageSet :
              /\ stage_state[s] = "failed"
              /\ history[Len(history)] = s
              /\ \A t \in StageSet :
                    /\ StageIndex(t) < StageIndex(s) => stage_state[t] = "success"
                    /\ StageIndex(t) > StageIndex(s) => tries[t] = 0
              /\ variant = "dag" => tries[s] = retries + 1
    /\ StagesInOrder
    /\ variant = "standalone" => \A s \in StageSet : tries[s] <= 1
    /\ variant = "dag" =>
          \A s \in StageSet :
              /\ tries[s] <= retries + 1
              /\ stage_state[s] = "success" /\ tries[s] > 1 => "save_error" \in logged

\* A standalone run aborted at the Normalizer by a temperature that is no number.
C10_Witness ==
    /\ variant = "standalone"
    /\ run_state = "failed"
    /\ stage_state["transform"] = "failed"
    /\ history = <<"extract", "transform">>
    /\ exit_code = Some(1)


\* Both runs have taken their timestamp.
BothPersisted(r1, r2) ==
    /\ r1 # r2
    /\ IsSome(runs[r1].persisted_at)
    /\ IsSome(runs[r2].persisted_at)

\* How far apart two runs took their timestamps, in ticks.
Apart(r1, r2) ==
    LET t1 == Get(runs[r1].persisted_at)
        t2 == Get(runs[r2].persisted_at)
    IN  IF t1 < t2 THEN t2 - t1 ELSE t1 - t2

\* The two runs wrote a file of the same name.
Collide(r1, r2) == runs[r1].files \cap runs[r2].files # {}

\* C11: two runs writing into the same directory write a file of the same
\* name only if they took their timestamps within the same clock second, so
\* never when they persist more than one second apart; a run that finds the
\* directory made by the other (or there before) goes on, and raises only when
\* the filesystem fails it.
C11_Filenames ==
    /\ \A r1, r2 \in DOMAIN runs :
          BothPersisted(r1, r2) =>
              /\ Collide(r1, r2) =>
                    /\ Get(runs[r1].persisted_at) \div TicksPerSecond
                           = Get(runs[r2].persisted_at) \div TicksPerSecond
                    /\ runs[r1].variant = runs[r2].variant
              /\ Apart(r1, r2) > TicksPerSecond => ~Collide(r1, r2)
    /\ \A r \in DOMAIN runs :
          /\ runs[r].pc = "raised" =>
                runs[r].io \in {"mkdir_fails", "write_fails", "csv_fails"}
          /\ runs[r].io \in {"ok", "dir_exists"} =>
                /\ shared_dir.exists
                /\ runs[r].pc \in {"mkdir_done", "returned"}
          /\ runs[r].files \subseteq shared_dir.files

\* Two runs of one variant have both saved, more than a second apart and under
\* different names; one made the directory and the other found it made.
C11_Witness ==
    /\ DOMAIN runs = RunIds
    /\ BothPersisted(1, 2)
    /\ runs[1].variant = runs[2].variant
    /\ runs[1].pc = "returned" /\ runs[2].pc = "returned"
    /\ runs[1].io = "ok" /\ runs[2].io = "dir_exists"
    /\ Apart(1, 2) > TicksPerSecond
    /\ ~Collide(1, 2)
    /\ runs[1].files # {} /\ runs[2].files # {}

\* Runs that persist within the same clock second can write the same name.
SameSecondCollision ==
    /\ DOMAIN runs = RunIds
    /\ BothPersisted(1, 2)
    /\ Collide(1, 2)


\* The fetches issued so far are those of the intervals 0, 1, ... in order, one
\* each, at start_time + index * INTERVAL_MINUTES minutes.
OnePerInterval ==
    /\ Len(fetched) = i
    /\ i <= (TOTAL_HOURS * 60) \div INTERVAL_MINUTES
    /\ \A k \in 1..Len(fetched) :
          fetched[k].timestamp = start_time + (k - 1) * INTERVAL_MINUTES * 60

\* extract_weather_data has returned.
ExtractDone == stage_state["extract"] = "success"

\* C12: in a standalone run extract_weather_data issues exactly
\* (TOTAL_HOURS * 60) / INTERVAL_MINUTES = 48 fetches, one per interval index
\* in increasing order at start + index * INTERVAL_MINUTES, whether or not
\* fetches fail, and always returns after the last one.
C12_FetchPlan ==
    /\ [](/\ (TOTAL_HOURS * 60) \div INTERVAL_MINUTES = 48
          /\ total_intervals = 48
          /\ OnePerInterval
          /\ tries["extract"] <= 1
          /\ stage_state["extract"] \in {"none", "running", "success"}
          /\ ExtractDone => Len(fetched) = 48)
    /\ <>ExtractDone

\* The loop has returned after 48 fetches, of which the first and the last
\* gave no data and the 46 between them did.
C12_Witness ==
    /\ ExtractDone
    /\ Len(fetched) = 48
    /\ IsNone(fetched[1].value)
    /\ IsNone(fetched[48].value)
    /\ Len(raw_data) = 46
    /\ start_time > 0


\* The fetch just made got a 200 response that holds every required field,
\* and the API key was there to ask with.
RequiredFieldsAnswered ==
    /\ IsSome(fetch_call)
    /\ Get(fetch_call).resp.kind = "http"
    /\ Get(fetch_call).resp.status = 200
    /\ required_keys_present(variant, Get(fetch_call).resp.body)
    /\ variant = "dag" => IsSome(resolve_api_key(key_source).value)

\* What the fetch returned for the optional fields that the entry lacks is
\* None; visibility is read by the standalone variant only.
AbsentFieldsAreNone(e, point) ==
    /\ e.wind # "ok" => point.wind_speed = None
    /\ e.clouds # "ok" => point.clouds = None
    /\ (variant = "standalone" /\ e.visibility = None) => point.visibility = None

\* C13 as stated: on a 200 response with the required fields present, an
\* optional field (wind speed, cloud coverage, visibility) missing in any
\* shape comes back as None in the measurement; the fetch neither raises nor
\* returns no data.
C13_Original ==
    RequiredFieldsAnswered =>
        LET e == Get(fetch_call).resp.body.entry
            result == Get(fetch_call).result
        IN  /\ ~result.raised
            /\ IsSome(result.value)
            /\ AbsentFieldsAreNone(e, Get(result.value))

\* Where the key of an optional field is missing altogether (no "wind", no
\* "clouds", no "visibility"), the measurement is returned with None there.
AbsentKeysAreNone ==
    (/\ RequiredFieldsAnswered
     /\ Get(fetch_call).resp.body.entry.wind # "no_speed"
     /\ Get(fetch_call).resp.body.entry.clouds # "no_all")
    => /\ ~Get(fetch_call).result.raised
       /\ IsSome(Get(fetch_call).result.value)
       /\ AbsentFieldsAreNone(Get(fetch_call).resp.body.entry,
                              Get(Get(fetch_call).result.value))

\* A fetch whose entry has no optional field at all returned a measurement.
AbsentKeysFetched ==
    /\ RequiredFieldsAnswered
    /\ Get(fetch_call).resp.body.entry = BareEntry
    /\ IsSome(Get(fetch_call).result.value)

====
